---- MODULE Spec2Model ----
(***************************************************************************)
(* Model of src/components/data_ingestion.py: the fetcher (get_url), the   *)
(* listing and detail parsers (parse_page, parse_property), the batch      *)
(* writer (export_to_csv), the consolidator (combine_batch_csvs) and the   *)
(* crawl loop (main).                                                      *)
(*                                                                         *)
(* Text is a sequence of one-character strings, so that str.strip(),       *)
(* str.replace() and " | ".join() are computed and not assumed.  Python's  *)
(* None and False are the records NoneVal and FalseVal; a parsed page is a *)
(* record with tag "doc" holding what each CSS selector of the code        *)
(* matches in it, in document order.                                       *)
(***************************************************************************)
EXTENDS Integers, Sequences, FiniteSets, TLC

VARIABLES
    pc,                        \* position in main / in the library-level specifications
    current_page,              \* main: current_page
    batch_num,                 \* main: batch_num
    batch_end_page,            \* main: batch_end_page
    page_num,                  \* main: page_num of the for loop
    current_batch_properties,  \* main: the in-memory buffer
    total_properties,          \* main: total_properties
    failed_urls,               \* main: failed_urls
    prop_urls,                 \* main: prop_urls of the current listing page
    idx,                       \* main: idx of enumerate(prop_urls, 1)
    html,                      \* main: html, the value get_url returned
    prop,                      \* the Property parse_property returned last
    error,                     \* the exception that left main, "none" if none
    paced,                     \* main: time.sleep(1) ran after the last detail attempt
    caller,                    \* get_url: who called it, "listing" or "detail"
    full_url,                  \* get_url: full_url
    attempt,                   \* get_url: attempt of range(3)
    outcomes,                  \* get_url: how each httpx.get of this call ended
    slept,                     \* get_url: the time.sleep durations of this call
    dir,                       \* the working directory: file name -> lines
    writeLog,                  \* history: the batch files main wrote, in order
    collectedLog,              \* history: the CSV rows of the records counted so far
    lastOp,                    \* library specifications: the operation applied last
    lastArgs,                  \* library specifications: its arguments and the directory it found
    stdout_encoding,           \* the encoding of sys.stdout, which print() writes to
    listingLog,                \* history: the listing pages asked of get_url, in order
    detailLog,                 \* history: the detail urls asked of get_url, in order
    bufferPages                \* history: the listing page of each record in the buffer

vars == <<pc, current_page, batch_num, batch_end_page, page_num,
          current_batch_properties, total_properties, failed_urls, prop_urls,
          idx, html, prop, error, paced, caller, full_url, attempt, outcomes, slept, dir,
          writeLog, collectedLog, lastOp, lastArgs,
          stdout_encoding, listingLog, detailLog, bufferPages>>

mainVars == <<current_page, batch_num, batch_end_page, page_num,
              current_batch_properties, total_properties, failed_urls,
              prop_urls, idx, error, paced, writeLog, collectedLog>>

fetchVars == <<caller, full_url, attempt, outcomes, slept>>

libVars == <<lastOp, lastArgs>>

histVars == <<stdout_encoding, listingLog, detailLog, bufferPages>>

-----------------------------------------------------------------------------
(* Bounds of the model.  main's max_pages (800) and batch_size (20) are    *)
(* scaled down, keeping several page ranges and a last range cut short.    *)

max_pages == 3

batch_size == 2

MaxLibWrites == 3

MaxLibNum == 10

MaxStrongs == 3

MaxContainers == 3

-----------------------------------------------------------------------------
(* Python values *)

NoneVal == [tag |-> "None"]

FalseVal == [tag |-> "False"]

NA == <<"N", "/", "A">>

Min(a, b) == IF a <= b THEN a ELSE b

RECURSIVE LStrip(_)
LStrip(s) == IF s = <<>> THEN s
             ELSE IF Head(s) = " " THEN LStrip(Tail(s)) ELSE s

RECURSIVE RStrip(_)
RStrip(s) == IF s = <<>> THEN s
             ELSE IF s[Len(s)] = " " THEN RStrip(SubSeq(s, 1, Len(s) - 1)) ELSE s

\* str.strip()
Strip(s) == RStrip(LStrip(s))

IsPrefix(sub, s) == Len(sub) <= Len(s) /\ SubSeq(s, 1, Len(sub)) = sub

\* str.replace(old, ""): every non-overlapping occurrence, left to right
RECURSIVE Replace(_, _)
Replace(s, old) ==
    IF old = <<>> \/ s = <<>> THEN s
    ELSE IF IsPrefix(old, s) THEN Replace(SubSeq(s, Len(old) + 1, Len(s)), old)
    ELSE <<Head(s)>> \o Replace(Tail(s), old)

\* sep.join(texts)
RECURSIVE Join(_, _)
Join(sep, texts) ==
    IF texts = <<>> THEN <<>>
    ELSE IF Len(texts) = 1 THEN texts[1]
    ELSE texts[1] \o sep \o Join(sep, Tail(texts))

\* xs[:n]
Take(xs, n) == SubSeq(xs, 1, Min(n, Len(xs)))

\* css_first: the first match, None when nothing matches
css_first(matches) == IF matches = <<>> THEN NoneVal
                      ELSE [tag |-> "node", text |-> matches[1]]

_text(node) == IF node = NoneVal THEN NA ELSE Strip(node.text)

_nodes_texts(nodes) == [i \in 1..Len(nodes) |-> Strip(nodes[i])]

-----------------------------------------------------------------------------
(* parse_page *)

Origin == "https://propertypro.ng"

\* the href as it stands in the page, not resolved
urljoinNone(base, href) == href

\* urljoin(base, href): an absolute href stands, a relative one is put under base
urljoin(base, href) == IF href.origin # "" THEN href
                       ELSE [origin |-> base, path |-> href.path]

\* a.attributes.get("href") is truthy: the attribute is there and not empty
HasHref(a) == a.href # NoneVal /\ ~(a.href.origin = "" /\ a.href.path = "")

RECURSIVE parse_page_from(_, _)
parse_page_from(properties, i) ==
    IF i > Len(properties) THEN <<>>
    ELSE LET anchors == properties[i]
             rest == parse_page_from(properties, i + 1)
         IN  IF anchors # <<>> /\ HasHref(anchors[1])
             THEN <<urljoin(Origin, anchors[1].href)>> \o rest
             ELSE rest

parse_page(doc) == parse_page_from(doc.listings, 1)

-----------------------------------------------------------------------------
(* parse_property *)

PinClasses == {{"fa-location-dot"}, {"fa-solid", "fa-location-dot"}}

\* p.css_first("i.fa-location-dot") or p.css_first("i.fa-solid.fa-location-dot")
HasPin(p) == \E k \in 1..Len(p.icons) : \E cls \in PinClasses : cls \subseteq p.icons[k].classes

ParagraphLocation(p) ==
    LET icon == IF p.icons = <<>> THEN NoneVal ELSE p.icons[1]
        loc_text == Strip(p.text)
    IN  IF icon # NoneVal THEN Strip(Replace(loc_text, Strip(icon.text))) ELSE loc_text

\* the inner for loop: the first paragraph of the block with a pin, else "N/A"
RECURSIVE BlockLocation(_, _)
BlockLocation(block, k) ==
    IF k > Len(block) THEN NA
    ELSE IF HasPin(block[k]) THEN ParagraphLocation(block[k])
    ELSE BlockLocation(block, k + 1)

\* the outer for loop: stops at the first block that set location to other than "N/A"
RECURSIVE Location(_, _)
Location(blocks, b) ==
    IF b > Len(blocks) THEN NA
    ELSE LET location == BlockLocation(blocks[b], 1)
         IN  IF location # NA THEN location ELSE Location(blocks, b + 1)

\* always strongs[0]
PriceFirst(strongs) == IF strongs # <<>> THEN Strip(strongs[1]) ELSE NA

Price(strongs) ==
    IF Len(strongs) >= 2 THEN Strip(strongs[2])
    ELSE IF strongs # <<>> THEN Strip(strongs[1])
    ELSE NA

\* _nodes_texts(feature_nodes) with no test: an empty list where None is due
FeaturesNeverNone(amen) == [tag |-> "list", items |-> _nodes_texts(amen)]

\* _nodes_texts(feature_nodes) if feature_nodes else None
Features(amen) == IF amen # <<>>
                  THEN [tag |-> "list", items |-> _nodes_texts(amen)]
                  ELSE NoneVal

parse_property(doc) ==
    LET spec_list == Take(_nodes_texts(doc.pros), 3)
        desc_node == css_first(doc.desc)
    IN  [title       |-> _text(css_first(doc.h1)),
         location    |-> Location(doc.blocks, 1),
         spec        |-> IF spec_list # <<>> THEN Join(<<" ", "|", " ">>, spec_list) ELSE NA,
         price       |-> Price(doc.strongs),
         description |-> IF desc_node # NoneVal THEN Strip(desc_node.text) ELSE NA,
         features    |-> Features(doc.amen)]

-----------------------------------------------------------------------------
(* Files: a name is a sequence of tokens, "properties_batch_" then the     *)
(* decimal digits of the number then ".csv"; a file is its sequence of     *)
(* lines, the header line first.                                           *)

DigitChars == <<"0", "1", "2", "3", "4", "5", "6", "7", "8", "9">>

\* f"{n}": the decimal digits, not zero-padded
RECURSIVE Digits(_)
Digits(n) == IF n < 10 THEN <<DigitChars[n + 1]>>
             ELSE Digits(n \div 10) \o <<DigitChars[(n % 10) + 1]>>

DigitVal(c) == CHOOSE d \in 0..9 : DigitChars[d + 1] = c

\* int(text)
RECURSIVE ParseInt(_)
ParseInt(ds) == IF Len(ds) = 1 THEN DigitVal(ds[1])
                ELSE 10 * ParseInt(SubSeq(ds, 1, Len(ds) - 1)) + DigitVal(ds[Len(ds)])

BatchName(n) == <<"properties_batch_">> \o Digits(n) \o <<".csv">>

FinalName == <<"properties", ".csv">>

\* the filename export_to_csv chooses; num is its batch_num, None or an int
FileNameOf(num) == IF num # NoneVal THEN BatchName(num.val) ELSE FinalName

\* the fields of Property, in declaration order
FieldNames == <<"title", "location", "spec", "price", "description", "features">>

RECURSIVE ReprItems(_)
ReprItems(items) ==
    IF items = <<>> THEN <<>>
    ELSE <<"'">> \o items[1] \o <<"'">>
         \o (IF Len(items) > 1 THEN <<",", " ">> \o ReprItems(Tail(items)) ELSE <<>>)

\* what csv.DictWriter writes for one record: None as the empty string, a list as its repr
CsvRow(p) ==
    [title       |-> p.title,
     location    |-> p.location,
     spec        |-> p.spec,
     price       |-> p.price,
     description |-> p.description,
     features    |-> IF p.features = NoneVal THEN <<>>
                     ELSE <<"[">> \o ReprItems(p.features.items) \o <<"]">>]

\* the rows written last record first
CsvRowsReversed(props) == [i \in 1..Len(props) |-> CsvRow(props[Len(props) + 1 - i])]

CsvRows(props) == [i \in 1..Len(props) |-> CsvRow(props[i])]

\* open(filename, "a"): the lines are added to what the file holds
WriteFileAppend(d, name, lines) ==
    [f \in DOMAIN d \cup {name} |->
        IF f = name THEN (IF name \in DOMAIN d THEN d[name] ELSE <<>>) \o lines ELSE d[f]]

\* open(filename, "w") and the writes: the old content is gone
WriteFile(d, name, lines) ==
    [f \in DOMAIN d \cup {name} |-> IF f = name THEN lines ELSE d[f]]

RemoveFiles(d, names) == [f \in DOMAIN d \ names |-> d[f]]

export_to_csv(d, props, num) ==
    WriteFile(d, FileNameOf(num), <<FieldNames>> \o CsvRows(props))

\* glob.glob("properties_batch_*.csv")
Glob(d) == {f \in DOMAIN d : f[1] = "properties_batch_" /\ f[Len(f)] = ".csv"}

\* int(x.split('_')[2].split('.')[0])
FileKey(name) == ParseInt(SubSeq(name, 2, Len(name) - 1))

\* the order of two digit strings as text: "10" comes before "2"
RECURSIVE LexLeq(_, _)
LexLeq(a, b) ==
    IF a = <<>> THEN TRUE
    ELSE IF b = <<>> THEN FALSE
    ELSE IF DigitVal(a[1]) # DigitVal(b[1]) THEN DigitVal(a[1]) < DigitVal(b[1])
    ELSE LexLeq(Tail(a), Tail(b))

\* the order sorted() gets with no key: the names compared as text
KeyLeqLexical(x, y) == LexLeq(SubSeq(x, 2, Len(x) - 1), SubSeq(y, 2, Len(y) - 1))

\* the order sorted() gets from key=lambda x: int(...)
KeyLeq(x, y) == FileKey(x) <= FileKey(y)

\* sorted(names, key=...)
RECURSIVE SortFiles(_)
SortFiles(S) ==
    IF S = {} THEN <<>>
    ELSE LET m == CHOOSE x \in S : \A y \in S : KeyLeq(x, y)
         IN  <<m>> \o SortFiles(S \ {m})

batch_files(d) == SortFiles(Glob(d))

\* csv.DictReader: the first line is the field names, the rest are the rows
RowsOf(lines) == Tail(lines)

RECURSIVE CombinedRows(_, _, _)
CombinedRows(d, files, i) ==
    IF i > Len(files) THEN <<>>
    ELSE RowsOf(d[files[i]]) \o CombinedRows(d, files, i + 1)

\* combine_batch_csvs; delete_batches is what input() returned
combine_batch_csvs(d, delete_batches) ==
    LET files == batch_files(d)
    IN  IF files = <<>> THEN d
        ELSE LET fieldnames == d[files[1]][1]
                 out == WriteFile(d, FinalName, <<fieldnames>> \o CombinedRows(d, files, 1))
             IN  IF delete_batches = "y"
                 THEN RemoveFiles(out, {files[i] : i \in 1..Len(files)})
                 ELSE out

-----------------------------------------------------------------------------
(* The pages the site may serve.  A page holds, per selector of the code,  *)
(* the texts of the nodes it matches: listings (div.property-listing, each *)
(* the sequence of its anchors), h1, blocks (each the sequence of its      *)
(* paragraphs), pros, strongs, desc and amen.                              *)

\* "naira" stands for the one character U+20A6, the naira sign of the site's prices
NonAscii == {"naira"}

Href(path) == [origin |-> "", path |-> path]

Anchor(href) == [href |-> href]

EmptyDoc == [tag |-> "doc", listings |-> <<>>, h1 |-> <<>>, blocks |-> <<>>,
             pros |-> <<>>, strongs |-> <<>>, desc |-> <<>>, amen |-> <<>>]

FullDoc == [tag      |-> "doc",
            listings |-> <<>>,
            h1       |-> << <<" ", "F", "l", "a", "t", " ">> >>,
            blocks   |-> << << [icons |-> <<>>, text |-> <<"x">>],
                               [icons |-> <<[classes |-> {"fa-solid", "fa-location-dot"},
                                             text |-> <<"*">>]>>,
                                text  |-> <<"*", " ", "L", "e", "k", "k", "i", " ">>] >> >>,
            pros     |-> << <<"3", "b">>, <<"2", "t">>, <<" ", "1", "p">>, <<"x">> >>,
            strongs  |-> << <<"9">>, <<" ", "naira", "5", " ">> >>,
            desc     |-> << <<"o", "k">> >>,
            amen     |-> << <<"p", "o", "o", "l">>, <<"g", "y", "m">> >>]

ListingDoc(ls) == [EmptyDoc EXCEPT !.listings = ls]

ListingPages ==
    { ListingDoc(<<>>),
      ListingDoc(<< <<Anchor(Href("/a"))>> >>),
      ListingDoc(<< <<Anchor(Href("/a"))>>, <<>>, <<Anchor(Href("/b")), Anchor(Href("/c"))>> >>) }

DetailPages == {EmptyDoc, FullDoc}

BaseUrl == [origin |-> Origin, path |-> "/property-for-rent/in/lagos?page="]

-----------------------------------------------------------------------------
(* get_url *)

\* range(2): one attempt too few
RangeAttemptsShort == 3 - 1

\* range(3)
RangeAttempts == 3

\* if attempt < 2
RetryBelow == 2

\* time.sleep(3): the backoff does not grow
BackoffFixed(a) == 3

\* time.sleep(3 * (attempt + 1))
Backoff(a) == 3 * (a + 1)

\* return None
FailureSignal == NoneVal

ReturnTo(c) == IF c = "listing" THEN "after_listing" ELSE "after_detail"

\* the call: full_url is built and the loop starts
EnterGetUrl(c, url, page) ==
    /\ caller' = c
    /\ full_url' = [url |-> url, page |-> page]
    /\ attempt' = 0
    /\ outcomes' = <<>>
    /\ slept' = <<>>
    /\ pc' = "get_url"

\* httpx.get and raise_for_status succeed: return HTMLParser(response.text)
GetUrlOk ==
    /\ pc = "get_url"
    /\ \E doc \in (IF caller = "listing" THEN ListingPages ELSE DetailPages) :
           html' = doc
    /\ outcomes' = Append(outcomes, "ok")
    /\ pc' = ReturnTo(caller)
    /\ UNCHANGED <<mainVars, caller, full_url, attempt, slept, prop, dir, libVars, histVars>>

\* httpx.get or raise_for_status raises: sleep and go round, or give up
GetUrlFail ==
    /\ pc = "get_url"
    /\ outcomes' = Append(outcomes, "fail")
    /\ IF attempt < RetryBelow
       THEN /\ slept' = Append(slept, Backoff(attempt))
            /\ IF attempt + 1 < RangeAttempts
               THEN attempt' = attempt + 1 /\ UNCHANGED <<html, pc>>
               ELSE /\ html' = FailureSignal
                    /\ pc' = ReturnTo(caller)
                    /\ UNCHANGED attempt
       ELSE /\ html' = FailureSignal
            /\ pc' = ReturnTo(caller)
            /\ UNCHANGED <<attempt, slept>>
    /\ UNCHANGED <<mainVars, caller, full_url, prop, dir, libVars, histVars>>

-----------------------------------------------------------------------------
(* main *)

\* a None taken for the failure the test is after
IsFalseOrNone(v) == v = FalseVal \/ v = NoneVal

\* html is False
IsFalse(v) == v = FalseVal

\* batch_num is not advanced
NextBatchNumSame(n) == n

NextBatchNum(n) == n + 1

\* the except clause forgets the url
RecordFailureDropped(urls, url) == urls

\* failed_urls.append(url)
RecordFailure(urls, url) == Append(urls, url)

\* the range runs its full batch_size pages whatever max_pages is
BatchEndUncapped(first_page) == first_page + batch_size - 1

\* batch_end_page = min(current_page + batch_size - 1, max_pages)
BatchEnd(first_page) == Min(first_page + batch_size - 1, max_pages)

\* the buffer goes on holding the records it wrote
BufferKept(props) == props

\* current_batch_properties = []
ClearedBuffer(props) == <<>>

\* while current_page <= max_pages: the page range of the batch, or the summary
WhileCheck ==
    /\ pc = "while"
    /\ IF current_page <= max_pages
       THEN /\ batch_end_page' = BatchEnd(current_page)
            /\ page_num' = current_page
            /\ pc' = "for_page"
       ELSE /\ pc' = "done"
            /\ UNCHANGED <<batch_end_page, page_num>>
    /\ UNCHANGED <<current_page, batch_num, current_batch_properties, total_properties,
                   failed_urls, prop_urls, idx, error, paced, writeLog, collectedLog,
                   html, prop, fetchVars, dir, libVars, histVars>>

\* html = get_url(baseurl, page=page_num)
FetchListing ==
    /\ pc = "for_page"
    /\ EnterGetUrl("listing", BaseUrl, <<page_num>>)
    /\ listingLog' = Append(listingLog, [page  |-> full_url'.page[1],
                                         first |-> current_page,
                                         last  |-> batch_end_page])
    /\ UNCHANGED <<mainVars, html, prop, dir, libVars, stdout_encoding, detailLog,
                   bufferPages>>

\* the test of the listing page and list(parse_page(html))
AfterListing ==
    /\ pc = "after_listing"
    /\ IF IsFalse(html)
       THEN /\ current_page' = max_pages + 1
            /\ pc' = "flush"
            /\ UNCHANGED <<prop_urls, idx, error>>
       ELSE IF html = NoneVal
       THEN \* None has no css: AttributeError leaves parse_page, list() and main
            /\ error' = "AttributeError"
            /\ pc' = "raised"
            /\ UNCHANGED <<current_page, prop_urls, idx>>
       ELSE /\ prop_urls' = parse_page(html)
            /\ idx' = 1
            /\ pc' = "for_url"
            /\ UNCHANGED <<current_page, error>>
    /\ UNCHANGED <<batch_num, batch_end_page, page_num, current_batch_properties,
                   total_properties, failed_urls, paced, writeLog, collectedLog,
                   html, prop, fetchVars, dir, libVars, histVars>>

\* html = get_url(url) for the next url of prop_urls
FetchDetail ==
    /\ pc = "for_url"
    /\ idx <= Len(prop_urls)
    /\ EnterGetUrl("detail", prop_urls[idx], <<>>)
    /\ paced' = FALSE
    /\ detailLog' = Append(detailLog, full_url'.url)
    /\ UNCHANGED <<current_page, batch_num, batch_end_page, page_num,
                   current_batch_properties, total_properties, failed_urls,
                   prop_urls, idx, error, writeLog, collectedLog,
                   html, prop, dir, libVars, stdout_encoding, listingLog, bufferPages>>

\* f" {prop.title} - {prop.price}"
PrintedLine(p) == <<" ">> \o p.title \o <<" ", "-", " ">> \o p.price

\* sys.stdout can encode the text: any text as utf-8, only ASCII text as ascii
Encodable(encoding, text) ==
    encoding = "utf-8" \/ \A i \in 1..Len(text) : text[i] \notin NonAscii

\* the body of the loop over prop_urls after the fetch
AfterDetail ==
    /\ pc = "after_detail"
    /\ IF IsFalse(html)
       THEN \* continue: no sleep
            /\ failed_urls' = RecordFailure(failed_urls, prop_urls[idx])
            /\ UNCHANGED <<current_batch_properties, total_properties, collectedLog,
                           prop, paced, bufferPages>>
       ELSE IF html = NoneVal
       THEN \* parse_property(None) raises AttributeError, which the except catches
            /\ failed_urls' = RecordFailure(failed_urls, prop_urls[idx])
            /\ paced' = TRUE
            /\ UNCHANGED <<current_batch_properties, total_properties, collectedLog, prop,
                           bufferPages>>
       ELSE /\ prop' = parse_property(html)
            /\ current_batch_properties' = Append(current_batch_properties, prop')
            /\ total_properties' = total_properties + 1
            /\ collectedLog' = Append(collectedLog, CsvRow(prop'))
            /\ bufferPages' = Append(bufferPages, page_num)
            \* print() of the title and the price, still inside the try: a
            \* UnicodeEncodeError is caught by the same except
            /\ IF Encodable(stdout_encoding, PrintedLine(prop'))
               THEN UNCHANGED failed_urls
               ELSE failed_urls' = RecordFailure(failed_urls, prop_urls[idx])
            /\ paced' = TRUE
    /\ idx' = idx + 1
    /\ pc' = "for_url"
    /\ UNCHANGED <<current_page, batch_num, batch_end_page, page_num, prop_urls,
                   error, writeLog, html, fetchVars, dir, libVars,
                   stdout_encoding, listingLog, detailLog>>

\* prop_urls is used up: the next page of the range, or the end of the range
EndOfPage ==
    /\ pc = "for_url"
    /\ idx > Len(prop_urls)
    /\ IF page_num < batch_end_page
       THEN page_num' = page_num + 1 /\ pc' = "for_page"
       ELSE pc' = "flush" /\ UNCHANGED page_num
    /\ UNCHANGED <<current_page, batch_num, batch_end_page, current_batch_properties,
                   total_properties, failed_urls, prop_urls, idx, error, paced,
                   writeLog, collectedLog, html, prop, fetchVars, dir, libVars, histVars>>

\* after the for loop: the buffer is exported if it holds anything, then
\* batch_num += 1 and current_page = batch_end_page + 1
Flush ==
    /\ pc = "flush"
    /\ IF current_batch_properties # <<>>
       THEN /\ dir' = export_to_csv(dir, current_batch_properties,
                                    [tag |-> "int", val |-> batch_num])
            /\ writeLog' = Append(writeLog, [name       |-> BatchName(batch_num),
                                             first_page |-> current_page,
                                             last_page  |-> batch_end_page,
                                             pages      |-> bufferPages])
            /\ current_batch_properties' = ClearedBuffer(current_batch_properties)
            /\ bufferPages' = <<>>
       ELSE UNCHANGED <<dir, writeLog, current_batch_properties, bufferPages>>
    /\ batch_num' = NextBatchNum(batch_num)
    /\ current_page' = batch_end_page + 1
    /\ pc' = "while"
    /\ UNCHANGED <<batch_end_page, page_num, total_properties, failed_urls, prop_urls,
                   idx, error, paced, collectedLog, html, prop, fetchVars, libVars,
                   stdout_encoding, listingLog, detailLog>>

\* a try/except around the export that goes on with the crawl
WriteErrorSwallowed == "while"

\* nothing catches what export_to_csv raises: it leaves main
AfterWriteError == "raised"

\* the export fails: open() raises and the directory stays, or a write raises
\* and the file holds the lines written before it
FlushFails ==
    /\ pc = "flush"
    /\ current_batch_properties # <<>>
    /\ LET lines == <<FieldNames>> \o CsvRows(current_batch_properties)
       IN  \/ dir' = dir
           \/ \E k \in 0..Len(lines) :
                  dir' = WriteFile(dir, BatchName(batch_num), SubSeq(lines, 1, k))
    /\ error' = "OSError"
    /\ pc' = AfterWriteError
    /\ UNCHANGED <<current_page, batch_num, batch_end_page, page_num,
                   current_batch_properties, total_properties, failed_urls, prop_urls,
                   idx, paced, writeLog, collectedLog, html, prop, fetchVars, libVars,
                   histVars>>

\* after the summary: combine_batch_csvs(), with the answer given to its prompt
Consolidate ==
    /\ pc = "done"
    /\ \E answer \in {"y", "n"} : dir' = combine_batch_csvs(dir, answer)
    /\ pc' = "exit"
    /\ UNCHANGED <<mainVars, html, prop, fetchVars, libVars, histVars>>

Unset == [tag |-> "unset"]

InitMain ==
    /\ current_page = 1
    /\ batch_num = 1
    /\ batch_end_page = 0
    /\ page_num = 0
    /\ current_batch_properties = <<>>
    /\ total_properties = 0
    /\ failed_urls = <<>>
    /\ prop_urls = <<>>
    /\ idx = 0
    /\ prop = Unset
    /\ error = "none"
    /\ paced = TRUE
    /\ caller = "none"
    /\ full_url = Unset
    /\ attempt = 0
    /\ outcomes = <<>>
    /\ slept = <<>>
    /\ writeLog = <<>>
    /\ collectedLog = <<>>
    /\ lastOp = "none"
    /\ lastArgs = Unset
    /\ listingLog = <<>>
    /\ detailLog = <<>>
    /\ bufferPages = <<>>

\* what sys.stdout may be set to: a terminal, or a pipe or file under an ASCII locale
Encodings == {"utf-8", "ascii"}

Init ==
    /\ InitMain
    /\ stdout_encoding \in Encodings
    /\ html = Unset
    /\ pc = "while"
    /\ dir = <<>>

Next ==
    \/ WhileCheck
    \/ FetchListing
    \/ GetUrlOk
    \/ GetUrlFail
    \/ AfterListing
    \/ FetchDetail
    \/ AfterDetail
    \/ EndOfPage
    \/ Flush
    \/ FlushFails
    \/ Consolidate

Spec == Init /\ [][Next]_vars

-----------------------------------------------------------------------------
(* The batch writer and the consolidator on their own: export_to_csv and   *)
(* combine_batch_csvs applied in any order to any arguments.               *)

LibProps ==
    LET a == parse_property(EmptyDoc)
        b == parse_property(FullDoc)
    IN  {<<>>, <<a>>, <<b, a>>}

LibNums == {NoneVal} \cup {[tag |-> "int", val |-> n] : n \in {1, 2, MaxLibNum}}

LibExport ==
    /\ pc = "lib"
    /\ Len(writeLog) < MaxLibWrites
    /\ \E props \in LibProps, num \in LibNums :
           /\ dir' = export_to_csv(dir, props, num)
           /\ lastArgs' = [props |-> props, num |-> num, dir |-> dir]
           /\ writeLog' = Append(writeLog, [name |-> FileNameOf(num),
                                            first_page |-> 0, last_page |-> 0])
    /\ lastOp' = "export"
    /\ UNCHANGED <<pc, current_page, batch_num, batch_end_page, page_num,
                   current_batch_properties, total_properties, failed_urls, prop_urls,
                   idx, error, paced, collectedLog, html, prop, fetchVars, histVars>>

LibCombine ==
    /\ pc = "lib"
    /\ \E answer \in {"y", "n"} :
           /\ dir' = combine_batch_csvs(dir, answer)
           /\ lastArgs' = [answer |-> answer, dir |-> dir]
    /\ lastOp' = "combine"
    /\ UNCHANGED <<pc, mainVars, html, prop, fetchVars, histVars>>

InitFiles ==
    /\ InitMain
    /\ stdout_encoding = "utf-8"
    /\ html = Unset
    /\ pc = "lib"
    /\ dir = <<>>

NextFiles == LibExport \/ LibCombine

SpecFiles == InitFiles /\ [][NextFiles]_vars

-----------------------------------------------------------------------------
(* parse_property on its own, over detail pages with every shape of the    *)
(* pricing block up to MaxStrongs nodes.                                   *)

SeqsUpTo(S, n) == UNION {[1..k -> S] : k \in 0..n}

PriceTexts == {<<"9">>, <<" ", "5", " ">>, <<>>}

ParseDocs ==
    {[EmptyDoc EXCEPT !.strongs = s, !.h1 = h, !.amen = a] :
        s \in SeqsUpTo(PriceTexts, MaxStrongs),
        h \in {<<>>, FullDoc.h1},
        a \in {<<>>, FullDoc.amen}}

\* detail pages with each fragment there or missing; a block may hold
\* paragraphs and icons and still no location pin
NoPinBlocks == << << [icons |-> <<>>, text |-> <<"x">>],
                     [icons |-> <<[classes |-> {"fa-solid"}, text |-> <<"*">>]>>,
                      text  |-> <<"*", " ", "y">>] >> >>

FragmentDocs ==
    {[EmptyDoc EXCEPT !.h1 = h, !.blocks = b, !.pros = p, !.strongs = s,
                      !.desc = d, !.amen = a] :
        h \in {<<>>, FullDoc.h1},
        b \in {<<>>, NoPinBlocks, FullDoc.blocks},
        p \in {<<>>, FullDoc.pros},
        s \in {<<>>, FullDoc.strongs},
        d \in {<<>>, FullDoc.desc},
        a \in {<<>>, FullDoc.amen}}

\* listing containers: no anchor, an anchor with no href, with an empty href,
\* with a relative or an absolute href, and a second anchor behind the first
Containers ==
    LET none == Anchor(NoneVal)
        empty == Anchor(Href(""))
        abs == Anchor([origin |-> "https://other.example", path |-> "/x"])
    IN  { <<>>, <<none>>, <<empty>>, <<Anchor(Href("/a"))>>, <<Anchor(Href("/b"))>>,
          <<abs>>, <<none, Anchor(Href("/a"))>>, <<Anchor(Href("/a")), Anchor(Href("/b"))>> }

ListingDocs == {ListingDoc(ls) : ls \in SeqsUpTo(Containers, MaxContainers)}

ParseProperty ==
    /\ pc = "parse"
    /\ prop' = parse_property(html)
    /\ pc' = "parsed"
    /\ UNCHANGED <<mainVars, html, fetchVars, dir, libVars, histVars>>

\* list(parse_page(html))
ParsePage ==
    /\ pc = "parse"
    /\ prop_urls' = parse_page(html)
    /\ pc' = "parsed_page"
    /\ UNCHANGED <<current_page, batch_num, batch_end_page, page_num,
                   current_batch_properties, total_properties, failed_urls,
                   idx, error, paced, writeLog, collectedLog,
                   html, prop, fetchVars, dir, libVars, histVars>>

InitParse ==
    /\ InitMain
    /\ stdout_encoding = "utf-8"
    /\ html \in ParseDocs \cup FragmentDocs \cup ListingDocs
    /\ pc = "parse"
    /\ dir = <<>>

NextParse == ParseProperty \/ ParsePage

SpecParse == InitParse /\ [][NextParse]_vars

-----------------------------------------------------------------------------
(* Properties of the crawl (Spec) *)

\* get_url has returned to main, which has not yet looked at html
Returned == pc \in {"after_listing", "after_detail"}

\* the rows of the batch files main wrote, in the order it wrote them
RECURSIVE WrittenRows(_)
WrittenRows(k) ==
    IF k > Len(writeLog) THEN <<>>
    ELSE (IF writeLog[k].name \in DOMAIN dir THEN RowsOf(dir[writeLog[k].name]) ELSE <<>>)
         \o WrittenRows(k + 1)

\* the page range a first page opens: 1 for page 1, 2 for page batch_size + 1, ...
RangeIndex(first_page) == ((first_page - 1) \div batch_size) + 1

(* C1: once get_url has returned None for a listing page, main raises no   *)
(* error and only goes on to the flush, the end of the while loop, the     *)
(* summary and the consolidation; it fetches nothing more.                 *)
C1_ListingFailureEndsCrawl ==
    (caller = "listing" /\ html = NoneVal /\ pc # "get_url")
        => (error = "none" /\ pc \in {"after_listing", "flush", "while", "done", "exit"})

(* C2: when a run has ended, by the page cursor passing max_pages or by a  *)
(* failed listing fetch, the buffer is empty and the rows of the written   *)
(* batch files are exactly the records counted as collected.               *)
C2_NoCollectedRecordLost ==
    (pc = "done" \/ (pc = "raised" /\ error = "AttributeError"))
        => (/\ current_batch_properties = <<>>
            /\ WrittenRows(1) = collectedLog
            /\ Len(collectedLog) = total_properties)

(* C3: a detail url whose fetch returned None, so that parse_property      *)
(* raises, is appended to failed_urls; the buffer and the count stay, no   *)
(* error leaves main, and the loop goes on with the next url.              *)
C3_DetailFailureRecordedAndSkipped ==
    [][(pc = "after_detail" /\ html = NoneVal)
        => (/\ failed_urls' = Append(failed_urls, prop_urls[idx])
            /\ current_batch_properties' = current_batch_properties
            /\ total_properties' = total_properties
            /\ collectedLog' = collectedLog
            /\ error' = "none"
            /\ prop_urls' = prop_urls
            /\ idx' = idx + 1
            /\ pc' = "for_url")]_vars

\* the first url of a page failed and main stands at the second
C3_Witness ==
    /\ pc = "for_url"
    /\ Len(prop_urls) = 2
    /\ idx = 2
    /\ html = NoneVal
    /\ failed_urls # <<>>
    /\ failed_urls[Len(failed_urls)] = prop_urls[1]
    /\ error = "none"

(* C4: get_url calls httpx.get at most 3 times for a url; it returns None  *)
(* exactly when all 3 calls failed, otherwise the page, and it raises      *)
(* nothing.                                                                *)
C4_AtMostThreeAttempts ==
    /\ Len(outcomes) <= 3
    /\ Returned =>
        /\ error = "none"
        /\ (outcomes = <<"fail", "fail", "fail">>) => (html = NoneVal)
        /\ (html = NoneVal) => (outcomes = <<"fail", "fail", "fail">>)
        /\ (html # NoneVal) => (html.tag = "doc")

\* get_url gave up after three failed attempts
C4_Witness == Returned /\ outcomes = <<"fail", "fail", "fail">> /\ html = NoneVal

(* C5: when the first two attempts fail and the third succeeds, get_url    *)
(* returns the page and has slept 3 after the first failure and 6 after    *)
(* the second, 9 in all.                                                   *)
C5_BackoffThreeThenSix ==
    (Returned /\ outcomes = <<"fail", "fail", "ok">>)
        => (html.tag = "doc" /\ slept = <<3, 6>> /\ slept[1] + slept[2] = 9)

\* two failures, then the page
C5_Witness == Returned /\ outcomes = <<"fail", "fail", "ok">> /\ html.tag = "doc"

(* C6, as claimed: the k-th batch file main writes is                      *)
(* properties_batch_k.csv.                                                 *)
C6_FilesNumberedByCount ==
    \A k \in 1..Len(writeLog) : writeLog[k].name = BatchName(k)

(* C6, as amended: a batch file carries the number of its page range, the  *)
(* file written after the k-th range of batch_size pages being             *)
(* properties_batch_k.csv; the numbers of the files written grow strictly  *)
(* in creation order and start at 1 or more.                               *)
C6_FilesNumberedByPageRange ==
    \A k \in 1..Len(writeLog) :
        /\ writeLog[k].name = BatchName(RangeIndex(writeLog[k].first_page))
        /\ FileKey(writeLog[k].name) >= 1
        /\ k > 1 => FileKey(writeLog[k].name) > FileKey(writeLog[k - 1].name)

\* the first page range collected nothing, and the first file written is number 2
C6_Witness ==
    /\ writeLog # <<>>
    /\ writeLog[1].name = BatchName(2)
    /\ writeLog[1].first_page = batch_size + 1

(* C9: no step of the crawl loop changes or removes a batch file that      *)
(* exists; batch_num never goes down, and a step that writes a file writes *)
(* the one numbered batch_num and raises batch_num, unless the write       *)
(* failed.                                                                 *)
C9_WrittenBatchFilesUntouched ==
    [][(pc # "done")
        => (/\ \A f \in DOMAIN dir : f \in DOMAIN dir' /\ dir'[f] = dir[f]
            /\ batch_num' >= batch_num
            /\ (dir' # dir) => (/\ DOMAIN dir' \ DOMAIN dir = {BatchName(batch_num)}
                                /\ batch_num' > batch_num \/ error' = "OSError"))]_vars

\* two batch files have been written and the crawl goes on
C9_Witness ==
    /\ pc = "while"
    /\ Len(writeLog) = 2
    /\ Cardinality(DOMAIN dir) = 2

(* C13: a step in which the export fails leaves main with the error: the  *)
(* crawl takes no step after it, the write is not tried again, batch_num   *)
(* stays, and every batch file written earlier in the run is as it was.    *)
C13_WriteFailureIsFatal ==
    [][/\ error # "OSError"
       /\ (error' = "OSError")
            => (/\ pc = "flush"
                /\ pc' = "raised"
                /\ batch_num' = batch_num
                /\ writeLog' = writeLog
                /\ \A k \in 1..Len(writeLog) :
                      /\ writeLog[k].name \in DOMAIN dir'
                      /\ writeLog[k].name \in DOMAIN dir
                      /\ dir'[writeLog[k].name] = dir[writeLog[k].name])]_vars

\* the second export failed after the header line; the first file is whole
C13_Witness ==
    /\ pc = "raised"
    /\ error = "OSError"
    /\ Len(writeLog) = 1
    /\ writeLog[1].name = BatchName(1)
    /\ Len(dir[BatchName(1)]) >= 2
    /\ BatchName(2) \in DOMAIN dir
    /\ dir[BatchName(2)] = <<FieldNames>>

(* C14: the flush step at the end of a page range: with a non-empty buffer *)
(* it writes the header and one row per buffered record, in the order the  *)
(* records were collected, to the file numbered batch_num, leaves every    *)
(* other file, adds one to batch_num and empties the buffer; with an empty *)
(* buffer it writes nothing.                                               *)
C14_FlushWritesBufferInOrder ==
    [][(pc = "flush" /\ pc' = "while")
        => IF current_batch_properties # <<>>
           THEN LET name == BatchName(batch_num)
                    n == Len(current_batch_properties)
                IN  /\ DOMAIN dir' = DOMAIN dir \cup {name}
                    /\ \A f \in DOMAIN dir \ {name} : dir'[f] = dir[f]
                    /\ Len(dir'[name]) = n + 1
                    /\ dir'[name][1] = FieldNames
                    /\ \A i \in 1..n :
                          /\ dir'[name][i + 1] = CsvRow(current_batch_properties[i])
                          /\ dir'[name][i + 1] = collectedLog[Len(collectedLog) - n + i]
                    /\ batch_num' = batch_num + 1
                    /\ current_batch_properties' = <<>>
           ELSE dir' = dir]_vars

\* the first file holds two different records, and a later flush wrote nothing
C14_Witness ==
    /\ pc = "while"
    /\ batch_num = 3
    /\ Len(writeLog) = 1
    /\ writeLog[1].name = BatchName(1)
    /\ Len(dir[BatchName(1)]) >= 3
    /\ dir[BatchName(1)][2] # dir[BatchName(1)][3]
    /\ current_batch_properties = <<>>

(* C15: the k-th listing page asked of get_url is page k, so pages go up   *)
(* from 1 by one and none is asked twice; k is at most max_pages; and the  *)
(* page lies in the range that starts at the multiple of batch_size below  *)
(* it and ends batch_size - 1 pages on, or at max_pages if that is less.   *)
C15_ListingPagesAscendingInRanges ==
    \A k \in 1..Len(listingLog) :
        LET first == batch_size * ((k - 1) \div batch_size) + 1
        IN  /\ listingLog[k].page = k
            /\ k <= max_pages
            /\ listingLog[k].first = first
            /\ listingLog[k].last = (IF first + batch_size - 1 > max_pages
                                     THEN max_pages
                                     ELSE first + batch_size - 1)

\* every page up to max_pages was asked for, the last in a range cut short
C15_Witness ==
    /\ Len(listingLog) = max_pages
    /\ listingLog[max_pages].page = max_pages
    /\ listingLog[max_pages].last = max_pages
    /\ listingLog[max_pages].last < listingLog[max_pages].first + batch_size - 1
    /\ listingLog[1].last = batch_size

(* C16: the step main takes once a detail fetch has returned, whatever it  *)
(* returned, runs time.sleep(1); and main enters get_url, for a detail or  *)
(* a listing page, only with that sleep done since the last detail fetch.  *)
C16_SleepAfterEveryDetailAttempt ==
    [][/\ (pc = "after_detail") => paced'
       /\ (pc # "get_url" /\ pc' = "get_url") => paced]_vars

\* a failed attempt and a collected one are both behind, and the next fetch is out
C16_Witness ==
    /\ pc = "get_url"
    /\ Len(detailLog) >= 3
    /\ failed_urls # <<>>
    /\ total_properties > 0
    /\ \E i \in 1..Len(failed_urls) : failed_urls[i] = detailLog[1]

(* C17: main stops only at its end, past the summary and the one call of   *)
(* combine_batch_csvs, unless a write failed: no fetch that returned       *)
(* makes it stop before.                                                   *)
C17_StopsOnlyPastDone ==
    (pc = "raised") => (error = "OSError")

(* C18: while main runs and no write has failed, the rows of the batch     *)
(* files of the directory, in the order of their numbers, followed by the  *)
(* rows of the buffer are exactly the records collected, each once and in  *)
(* the order of collection, and total_properties is their number; no step  *)
(* lowers total_properties.                                                *)
Accounted ==
    (pc # "exit" /\ error # "OSError")
        => (/\ CombinedRows(dir, batch_files(dir), 1) \o CsvRows(current_batch_properties)
                  = collectedLog
            /\ total_properties = Len(collectedLog))

C18_CountIsFilesPlusBuffer ==
    [][Accounted /\ Accounted' /\ total_properties' >= total_properties]_vars

\* one record is in a file, another in the buffer, in the second page range
C18_Witness ==
    /\ Len(writeLog) = 1
    /\ Len(current_batch_properties) = 1
    /\ total_properties = Len(dir[writeLog[1].name]) - 1 + 1
    /\ total_properties >= 2
    /\ error = "none"

(* C19: between two detail attempts, the records collected and the urls    *)
(* failed add up to the detail urls asked of get_url.                      *)
C19_OneOutcomePerAttempt ==
    (pc = "for_url") => (total_properties + Len(failed_urls) = Len(detailLog))

(* C20: the buffer is empty when a page range starts; the records it holds *)
(* come from pages of the current range, which has at most batch_size      *)
(* pages; and the file numbered N holds one row per record of pages        *)
(* batch_size*(N-1)+1 to batch_size*N, or to max_pages if that is less.    *)
C20_BufferAndFilesFollowPageRanges ==
    /\ (pc = "while") => (current_batch_properties = <<>>)
    /\ Len(bufferPages) = Len(current_batch_properties)
    /\ \A i \in 1..Len(bufferPages) :
          /\ bufferPages[i] \in current_page..batch_end_page
          /\ batch_end_page - current_page + 1 <= batch_size
    /\ (pc # "exit")
          => \A k \in 1..Len(writeLog) :
                LET N == FileKey(writeLog[k].name)
                    last == IF batch_size * N > max_pages THEN max_pages ELSE batch_size * N
                IN  /\ Len(dir[writeLog[k].name]) = Len(writeLog[k].pages) + 1
                    /\ \A i \in 1..Len(writeLog[k].pages) :
                          writeLog[k].pages[i] \in (batch_size * (N - 1) + 1)..last

\* file 2 holds a record of the last page, file 1 records of the first range
C20_Witness ==
    /\ pc = "done"
    /\ Len(writeLog) = 2
    /\ writeLog[2].name = BatchName(2)
    /\ writeLog[2].pages # <<>>
    /\ writeLog[2].pages[1] = max_pages
    /\ Len(writeLog[1].pages) >= 2
    /\ writeLog[1].pages[1] < writeLog[1].pages[Len(writeLog[1].pages)]

-----------------------------------------------------------------------------
(* Properties of the batch writer and the consolidator (SpecFiles) *)

\* the rows of the batch files of d numbered n and up, by counting n upwards
RECURSIVE RowsFrom(_, _)
RowsFrom(d, n) ==
    IF n > MaxLibNum THEN <<>>
    ELSE (IF BatchName(n) \in DOMAIN d THEN Tail(d[BatchName(n)]) ELSE <<>>)
         \o RowsFrom(d, n + 1)

(* C7: combine_batch_csvs leaves in properties.csv one header line and     *)
(* then every row of every batch file it found, the files taken in         *)
(* ascending order of their number as an integer and each file's rows in   *)
(* their own order; with no batch file it writes nothing.                  *)
C7_CombineOrderedAndComplete ==
    (lastOp = "combine")
        => IF Glob(lastArgs.dir) = {}
           THEN dir = lastArgs.dir
           ELSE /\ FinalName \in DOMAIN dir
                /\ dir[FinalName] = <<FieldNames>> \o RowsFrom(lastArgs.dir, 1)

\* batch files 2 and MaxLibNum were combined, each with rows of its own
C7_Witness ==
    /\ lastOp = "combine"
    /\ {BatchName(2), BatchName(MaxLibNum)} \subseteq DOMAIN lastArgs.dir
    /\ Len(lastArgs.dir[BatchName(2)]) = 2
    /\ Len(lastArgs.dir[BatchName(MaxLibNum)]) = 3
    /\ Len(dir[FinalName]) >= 4

(* C8: after export_to_csv the file of that batch number holds the header  *)
(* and the rows of this call only, whatever the file held before.          *)
C8_ExportOverwrites ==
    (lastOp = "export")
        => dir[FileNameOf(lastArgs.num)] = <<FieldNames>> \o CsvRows(lastArgs.props)

\* the file existed with more rows than this call writes
C8_Witness ==
    /\ lastOp = "export"
    /\ lastArgs.num # NoneVal
    /\ FileNameOf(lastArgs.num) \in DOMAIN lastArgs.dir
    /\ Len(lastArgs.dir[FileNameOf(lastArgs.num)]) = 3
    /\ Len(lastArgs.props) = 1

-----------------------------------------------------------------------------
(* Properties of parse_property (SpecParse) *)

(* C10: the price is the stripped text of the second strong node of the    *)
(* pricing block when there are two or more, of the only one when there is *)
(* one, and "N/A" when there is none.                                      *)
C10_PriceIsSecondStrong ==
    (pc = "parsed")
        => LET strongs == html.strongs
           IN  /\ (Len(strongs) >= 2) => (prop.price = Strip(strongs[2]))
               /\ (Len(strongs) = 1) => (prop.price = Strip(strongs[1]))
               /\ (Len(strongs) = 0) => (prop.price = NA)

\* a pricing block whose first and second nodes differ
C10_Witness ==
    /\ pc = "parsed"
    /\ Len(html.strongs) >= 2
    /\ Strip(html.strongs[1]) # Strip(html.strongs[2])
    /\ prop.price = Strip(html.strongs[2])

(* C11: for a page in which every fragment parse_property looks for is    *)
(* missing, the record has "N/A" as title, location, spec, price and       *)
(* description, and None, not an empty list, as features.                  *)
AllMissing(doc) ==
    /\ doc.h1 = <<>>
    /\ \A b \in 1..Len(doc.blocks) : \A k \in 1..Len(doc.blocks[b]) : ~HasPin(doc.blocks[b][k])
    /\ doc.pros = <<>>
    /\ doc.strongs = <<>>
    /\ doc.desc = <<>>
    /\ doc.amen = <<>>

C11_AllMissingGivesSentinels ==
    (pc = "parsed" /\ AllMissing(html))
        => prop = [title |-> NA, location |-> NA, spec |-> NA, price |-> NA,
                   description |-> NA, features |-> NoneVal]

\* a page with content blocks but no location pin and nothing else
C11_Witness ==
    /\ pc = "parsed"
    /\ AllMissing(html)
    /\ html.blocks # <<>>
    /\ prop.features = NoneVal
    /\ prop.location = NA

(* C12: of the K containers of a listing page, the M whose first anchor    *)
(* has a non-empty href give exactly M urls, in the order of the           *)
(* containers, each absolute: a relative href under the site origin, an    *)
(* absolute one as it is; the other containers give nothing.               *)
Usable(container) ==
    /\ container # <<>>
    /\ container[1].href # NoneVal
    /\ container[1].href # Href("")

C12_OneUrlPerUsableContainer ==
    (pc = "parsed_page")
        => LET cs == html.listings
               usable == {i \in 1..Len(cs) : Usable(cs[i])}
               rank(i) == Cardinality({k \in usable : k <= i})
           IN  /\ Len(prop_urls) = Cardinality(usable)
               /\ \A i \in usable :
                    LET href == cs[i][1].href
                        url == prop_urls[rank(i)]
                    IN  /\ url.origin # ""
                        /\ url.path = href.path
                        /\ url.origin = (IF href.origin = "" THEN Origin ELSE href.origin)

\* three containers, the middle one with no usable anchor, the others relative
C12_Witness ==
    /\ pc = "parsed_page"
    /\ Len(html.listings) = 3
    /\ Usable(html.listings[1])
    /\ ~Usable(html.listings[2])
    /\ html.listings[2] # <<>>
    /\ Usable(html.listings[3])
    /\ Len(prop_urls) = 2
    /\ prop_urls[1] # prop_urls[2]
    /\ prop_urls[2].origin = Origin

====
